---- MODULE Spec2Model ----
(***************************************************************************)
(* A model of the middle and back end of the istind compiler: the linear   *)
(* IR and its lifetime analysis (src/ir.rs, src/ir/lifetime.rs), the IR    *)
(* generator (src/ir/codegen.rs), the register allocator                   *)
(* (src/synthesize/arch/arm/reg.rs) and the AArch64 assembler              *)
(* (src/synthesize/arch/arm.rs, src/synthesize/arch/arm/instr.rs).         *)
(***************************************************************************)
EXTENDS Integers, Sequences, FiniteSets, TLC

(***************************************************************************)
(* Generic helpers for Vec / HashMap / BTreeMap values.                    *)
(***************************************************************************)

\* Option::None for values that are otherwise natural numbers.
None == -1

\* usize::MAX as used by unwrap_or(usize::MAX): larger than any index of the model.
USIZE_MAX == 1000000

\* HashMap / BTreeMap insert.
MapPut(m, k, v) == (k :> v) @@ m

\* BTreeMap remove.
MapRemove(m, k) == [x \in (DOMAIN m) \ {k} |-> m[x]] @@ << >>

EmptyMap == << >>

\* Iterator::position: 1-based index of the first element equal to x, 0 when absent.
Position(s, x) ==
    IF \E k \in 1..Len(s) : s[k] = x
    THEN CHOOSE k \in 1..Len(s) : s[k] = x /\ \A j \in 1..(k - 1) : s[j] # x
    ELSE 0

\* Vec::contains.
Contains(s, x) == \E k \in 1..Len(s) : s[k] = x

\* Vec::swap_remove: the removed element is replaced by the last one.
SwapRemove(s, u) ==
    LET n == Len(s)
    IN  [k \in 1..(n - 1) |-> IF k = u THEN s[n] ELSE s[k]]

\* Vec::insert at 1-based position p.
InsertAt(s, p, x) == SubSeq(s, 1, p - 1) \o <<x>> \o SubSeq(s, p, Len(s))

SetMax(S) == CHOOSE x \in S : \A y \in S : y <= x
SetMin(S) == CHOOSE x \in S : \A y \in S : x <= y

\* The elements of a sequence.
Range(s) == {s[k] : k \in 1..Len(s)}

(***************************************************************************)
(* The IR data model (src/ir.rs).                                          *)
(***************************************************************************)

\* SourceVal::Immediate(n) and SourceVal::VReg(v); NoVal stands for an absent operand.
Imm(n) == [t |-> "imm", n |-> n]
VReg(v) == [t |-> "vreg", n |-> v]
NoVal == [t |-> "none", n |-> 0]

\* SourceVal::reg.
SrcReg(s) == IF s.t = "vreg" THEN s.n ELSE None

\* Operation variants, in one record shape.
Assign(src, dest) == [op |-> "Assign", a |-> src, b |-> NoVal, dest |-> dest, function |-> ""]
Add(a, b, dest) == [op |-> "Add", a |-> a, b |-> b, dest |-> dest, function |-> ""]
Subtract(a, b, dest) == [op |-> "Subtract", a |-> a, b |-> b, dest |-> dest, function |-> ""]
Multiply(a, b, dest) == [op |-> "Multiply", a |-> VReg(a), b |-> VReg(b), dest |-> dest, function |-> ""]
Divide(a, b, dest) == [op |-> "Divide", a |-> a, b |-> b, dest |-> dest, function |-> ""]
Return(value) == [op |-> "Return", a |-> value, b |-> NoVal, dest |-> None, function |-> ""]
Call(function) == [op |-> "Call", a |-> NoVal, b |-> NoVal, dest |-> None, function |-> function]

\* A push that keeps the first vreg only; C12 tells it from the closure of
\* Operation::vregs_used.
PushUseFirst(out, vreg) == IF vreg # None /\ Len(out) = 0 THEN Append(out, vreg) ELSE out

\* The closure `push` of Operation::vregs_used: append unless None or already present.
PushUse(out, vreg) == IF vreg # None /\ ~Contains(out, vreg) THEN Append(out, vreg) ELSE out

\* Operation::vregs_used: sources first, then the destination, without duplicates.
vregs_used(o) ==
    CASE o.op = "Assign" -> PushUse(PushUse(<<>>, SrcReg(o.a)), o.dest)
      [] o.op \in {"Add", "Subtract", "Divide", "Multiply"} ->
            PushUse(PushUse(PushUse(<<>>, SrcReg(o.a)), SrcReg(o.b)), o.dest)
      [] o.op = "Return" -> PushUse(<<>>, SrcReg(o.a))
      [] OTHER -> <<>>

(***************************************************************************)
(* Lifetimes (src/ir/lifetime.rs, BasicBlock::lifetimes in src/ir.rs).     *)
(* An interval is [start |-> s, end |-> e] for the range s..e (e excluded);*)
(* a Lifetime is the sequence of its intervals.  The `register` field of   *)
(* an interval is kept by the allocator in a separate map.                 *)
(***************************************************************************)

\* An interval that ends where it starts; C13 tells it from the range s..e.
IntervalEmpty(s, e) == [start |-> s, end |-> s]

Interval(s, e) == [start |-> s, end |-> e]

\* A containment test that leaves out the first position of the range; C3
\* tells it from Range::contains.
IvContainsOpen(iv, p) == iv.start < p /\ p < iv.end

\* Range::contains.
IvContains(iv, p) == iv.start <= p /\ p < iv.end

\* Lifetime::insert_interval; ok is FALSE when one of its assertions fires.
insert_interval(intervals, interval) ==
    LET later == {k \in 1..Len(intervals) : intervals[k].start > interval.start}
    IN  IF later # {}
        THEN LET insert_at == SetMin(later)
             IN  [ok |-> intervals[insert_at].start >= interval.end,
                  intervals |-> InsertAt(intervals, insert_at, interval)]
        ELSE [ok |-> (Len(intervals) = 0) \/ (intervals[Len(intervals)].end <= interval.start),
              intervals |-> Append(intervals, interval)]

\* lifetimes.entry(vreg).or_default().insert_interval(interval)
CommitInterval(st, vreg, interval) ==
    LET old == IF vreg \in DOMAIN st.lifetimes THEN st.lifetimes[vreg] ELSE <<>>
        r == insert_interval(old, interval)
    IN  [st EXCEPT !.lifetimes = MapPut(st.lifetimes, vreg, r.intervals),
                   !.ok = st.ok /\ r.ok]

\* active.retain_mut(...) of BasicBlock::lifetimes at instruction i, element k onwards.
\* st.active is rebuilt in st.kept; st.uses loses the vregs that were matched.
RECURSIVE RetainActive(_, _, _)
RetainActive(st, i, k) ==
    IF k > Len(st.active) THEN [st EXCEPT !.active = st.kept, !.kept = <<>>]
    ELSE LET e == st.active[k]
             u == Position(st.uses, e.vreg)
         IN  IF u # 0
             THEN RetainActive([st EXCEPT !.uses = SwapRemove(st.uses, u),
                                          !.kept = Append(st.kept, [e EXCEPT !.interval.end = i + 1])],
                               i, k + 1)
             ELSE RetainActive(CommitInterval(st, e.vreg, e.interval), i, k + 1)

\* The body of the loop over the operations of BasicBlock::lifetimes.
LifetimesStep(st, i, o) ==
    LET s1 == RetainActive([st EXCEPT !.uses = vregs_used(o)], i, 1)
    IN  [s1 EXCEPT !.active = s1.active \o
                       [k \in 1..Len(s1.uses) |-> [vreg |-> s1.uses[k], interval |-> Interval(i, i + 1)]],
                   !.uses = <<>>]

RECURSIVE LifetimesLoop(_, _, _)
LifetimesLoop(st, ops, i) ==
    IF i >= Len(ops) \/ ~st.ok THEN st ELSE LifetimesLoop(LifetimesStep(st, i, ops[i + 1]), ops, i + 1)

\* The final loop of BasicBlock::lifetimes: commit what is still active.
RECURSIVE CommitActive(_, _)
CommitActive(st, k) ==
    IF k > Len(st.active) THEN st
    ELSE CommitActive(CommitInterval(st, st.active[k].vreg, st.active[k].interval), k + 1)

\* BasicBlock::lifetimes: [ok, lifetimes]; lifetimes maps each mentioned vreg to its intervals.
lifetimes_of(ops) ==
    LET st0 == [lifetimes |-> EmptyMap, active |-> <<>>, kept |-> <<>>, uses |-> <<>>, ok |-> TRUE]
        st1 == CommitActive(LifetimesLoop(st0, ops, 0), 1)
    IN  [ok |-> st1.ok, lifetimes |-> st1.lifetimes]

\* Lifetime::end: the largest range.end.
LifetimeEnd(intervals) == SetMax({intervals[k].end : k \in 1..Len(intervals)})

\* Lifetime::at_mut: 1-based index of the first interval containing position, 0 when none.
at_mut(intervals, position) ==
    LET hits == {k \in 1..Len(intervals) : IvContains(intervals[k], position)}
    IN  IF hits = {} THEN 0 ELSE SetMin(hits)

\* Lifetime::next_use_after: the first range.start greater than position, None when absent.
next_use_after(intervals, position) ==
    LET later == {k \in 1..Len(intervals) : intervals[k].start > position}
    IN  IF later = {} THEN None ELSE intervals[SetMin(later)].start

(***************************************************************************)
(* The register allocator (src/synthesize/arch/arm/reg.rs).                *)
(* Registers are their numbers: X0..X15 are 0..15, FP 29, LR 30, SP 31.    *)
(***************************************************************************)

X0 == 0
X16 == 16
FP == 29
LR == 30
SP == 31

\* CALLER_SAVED_REGS
CALLER_SAVED_REGS == [k \in 1..16 |-> k - 1]

\* RegisterGuard variants; inner_reg is the field reg.
Ready(reg) == [g |-> "Ready", save |-> None, load |-> None, reg |-> reg]
Load(slot, reg) == [g |-> "Load", save |-> None, load |-> slot, reg |-> reg]
Save(slot, reg) == [g |-> "Save", save |-> slot, load |-> None, reg |-> reg]
SaveAndLoad(save_to, load_from, reg) == [g |-> "SaveAndLoad", save |-> save_to, load |-> load_from, reg |-> reg]

\* Location variants.
LocRegister(r) == [k |-> "reg", x |-> r]

\* A stack location that names the slot after the one it is given; C5 tells
\* it from Location::Stack.
LocStackNext(s) == [k |-> "stack", x |-> s + 1]

LocStack(s) == [k |-> "stack", x |-> s]

\* Stack::default
StackDefault == [stack_size |-> 0, free_slots |-> <<>>]

\* A pool that grows by one slot and hands out the slot after it; C14 tells
\* it from Stack::alloc.
StackAllocSkip(stack) ==
    IF Len(stack.free_slots) > 0
    THEN [stack |-> [stack EXCEPT !.free_slots = SubSeq(stack.free_slots, 1, Len(stack.free_slots) - 1)],
          slot |-> stack.free_slots[Len(stack.free_slots)]]
    ELSE [stack |-> [stack EXCEPT !.stack_size = stack.stack_size + 1],
          slot |-> stack.stack_size + 1]

\* A pool that reuses the slot freed first; C20 tells it from Stack::alloc.
StackAllocOldest(stack) ==
    IF Len(stack.free_slots) > 0
    THEN [stack |-> [stack EXCEPT !.free_slots = Tail(stack.free_slots)],
          slot |-> stack.free_slots[1]]
    ELSE [stack |-> [stack EXCEPT !.stack_size = stack.stack_size + 1],
          slot |-> stack.stack_size]

\* Stack::alloc: the new pool and the slot handed out.
StackAlloc(stack) ==
    IF Len(stack.free_slots) > 0
    THEN [stack |-> [stack EXCEPT !.free_slots = SubSeq(stack.free_slots, 1, Len(stack.free_slots) - 1)],
          slot |-> stack.free_slots[Len(stack.free_slots)]]
    ELSE [stack |-> [stack EXCEPT !.stack_size = stack.stack_size + 1],
          slot |-> stack.stack_size]

\* Only the bounds assertion; C16 tells it from the two assertions of Stack::free.
StackFreeOkBounds(stack, slot) == slot < stack.stack_size

\* The two assertions of Stack::free.
StackFreeOk(stack, slot) == slot < stack.stack_size /\ ~Contains(stack.free_slots, slot)

\* A free that puts the slot at the front of the free list; C15 tells it
\* from the push of Stack::free.
StackFreeFront(stack, slot) == [stack EXCEPT !.free_slots = <<slot>> \o stack.free_slots]

\* Stack::free once its assertions have passed.
StackFree(stack, slot) == [stack EXCEPT !.free_slots = Append(stack.free_slots, slot)]

\* The keys of a map in ascending order (BTreeMap iteration order).
SortedSeq(S) ==
    [k \in 1..Cardinality(S) |-> CHOOSE x \in S : Cardinality({y \in S : y < x}) = k - 1]

\* The caller-save pass of allocate at a Call: every vreg held in a register
\* moves to a slot of the pool, in ascending vreg order.  al.saved logs which
\* vreg each pair of the list stands for, as al.evicted does for evictions.
RECURSIVE CallerSave(_, _, _, _)
CallerSave(al, keys, k, op_idx) ==
    IF k > Len(keys) THEN al
    ELSE LET v == keys[k]
             l == al.location_map[v]
         IN  IF l.k = "reg"
             THEN LET r == StackAlloc(al.stack)
                  IN  CallerSave([al EXCEPT !.stack = r.stack,
                                            !.location_map = MapPut(al.location_map, v, LocStack(r.slot)),
                                            !.regs_to_save = Append(al.regs_to_save, <<l.x, r.slot>>),
                                            !.saved = Append(al.saved,
                                                [idx |-> op_idx, vreg |-> v, reg |-> l.x, slot |-> r.slot])],
                                 keys, k + 1, op_idx)
             ELSE CallerSave(al, keys, k + 1, op_idx)

\* A Call branch that records a caller-save list at every Call, an empty one
\* included; C17 tells it from the branch of allocate.
AllocCallAlways(al, op_idx) ==
    LET a1 == CallerSave([al EXCEPT !.regs_to_save = <<>>], SortedSeq(DOMAIN al.location_map), 1, op_idx)
    IN  [a1 EXCEPT !.stack_saves = MapPut(a1.stack_saves, op_idx, a1.regs_to_save),
                   !.phys_regs = CALLER_SAVED_REGS,
                   !.regs_to_save = <<>>]

\* The vregs that location_map records in a register.
InRegister(location_map) == {v \in DOMAIN location_map : location_map[v].k = "reg"}

\* A Call branch that refills the free registers and leaves every vreg where
\* it is; C22 tells it from the branch of allocate.
AllocCallKeep(al, op_idx) ==
    IF InRegister(al.location_map) # {} THEN [al EXCEPT !.phys_regs = CALLER_SAVED_REGS] ELSE al

\* Lines 180-198 of allocate: the Call branch at the head of the loop body.
AllocCall(al, op_idx) ==
    LET a1 == CallerSave([al EXCEPT !.regs_to_save = <<>>], SortedSeq(DOMAIN al.location_map), 1, op_idx)
    IN  IF Len(a1.regs_to_save) > 0
        THEN [a1 EXCEPT !.stack_saves = MapPut(a1.stack_saves, op_idx, a1.regs_to_save),
                        !.phys_regs = CALLER_SAVED_REGS,
                        !.regs_to_save = <<>>]
        ELSE a1

\* A search that never finds a dead vreg; C19 tells it from the search of allocate.
DeadVregNone(location_map, last_uses, op_idx) == None

\* The search for a dead vreg: the lowest vreg held in a register whose last use
\* is not after op_idx; None when there is none.
DeadVreg(location_map, last_uses, op_idx) ==
    LET dead == {v \in InRegister(location_map) : last_uses[v] <= op_idx}
    IN  IF dead = {} THEN None ELSE SetMin(dead)

\* The key of max_by_key in the eviction: next use after op_idx, usize::MAX when none.
NextUseKey(lt, v, op_idx) ==
    LET n == next_use_after(lt[v], op_idx) IN IF n = None THEN USIZE_MAX ELSE n

\* The eviction choice: max_by_key returns the last of several maxima, which in
\* ascending iteration order is the highest vreg among them.
FurthestUseVreg(location_map, lt, op_idx) ==
    LET cand == InRegister(location_map)
        best == SetMax({NextUseKey(lt, v, op_idx) : v \in cand})
    IN  SetMax({v \in cand : NextUseKey(lt, v, op_idx) = best})

\* Lines 203-304 of allocate: the guard of vreg at op_idx, together with the
\* changes it makes to the allocator state (k is the interval found by at_mut).
GuardFor(al, lt, last_uses, op_idx, vreg, k) ==
    LET ir == al.ireg[vreg][k]
        known == vreg \in DOMAIN al.location_map
        loc == IF known THEN al.location_map[vreg] ELSE LocStack(None)
        offset == IF known /\ loc.k = "stack" THEN loc.x ELSE None
        stamp(a, reg) == [a EXCEPT !.ireg[vreg][k] = reg]
        fresh(reg) == IF offset # None THEN Load(offset, reg) ELSE Ready(reg)
    IN  IF ir # None THEN [al |-> al, guard |-> Ready(ir)]
        ELSE IF known /\ loc.k = "reg" THEN [al |-> stamp(al, loc.x), guard |-> Ready(loc.x)]
        ELSE IF Len(al.phys_regs) > 0
        THEN LET reg == al.phys_regs[Len(al.phys_regs)]
             IN  [al |-> stamp([al EXCEPT !.phys_regs = SubSeq(al.phys_regs, 1, Len(al.phys_regs) - 1)], reg),
                  guard |-> fresh(reg)]
        ELSE LET dead_vreg == DeadVreg(al.location_map, last_uses, op_idx)
             IN  IF dead_vreg # None
                 THEN LET reg == al.location_map[dead_vreg].x
                      IN  [al |-> stamp([al EXCEPT !.retired_regs = Append(al.retired_regs, dead_vreg)], reg),
                           guard |-> fresh(reg)]
                 ELSE IF InRegister(al.location_map) = {}
                 THEN [al |-> [al EXCEPT !.ok = FALSE], guard |-> Ready(None)]
                 ELSE LET furthest_use_vreg == FurthestUseVreg(al.location_map, lt, op_idx)
                          reg == al.location_map[furthest_use_vreg].x
                      IN  [al |-> stamp([al EXCEPT !.location_map =
                                                      MapPut(al.location_map, furthest_use_vreg,
                                                             LocStack(al.stack_size)),
                                                   !.stack_size = al.stack_size + 1,
                                                   !.evicted = Append(al.evicted,
                                                       [idx |-> op_idx, victim |-> furthest_use_vreg,
                                                        by |-> vreg, slot |-> al.stack_size,
                                                        held |-> InRegister(al.location_map)])], reg),
                           guard |-> IF offset # None
                                     THEN SaveAndLoad(al.stack_size, offset, reg)
                                     ELSE Save(al.stack_size, reg)]

\* Lines 200-315 of allocate: one iteration of the loop over lifetimes.
AllocVreg(al, lt, last_uses, op_idx, vreg) ==
    LET k == at_mut(lt[vreg], op_idx)
    IN  IF k = 0 \/ ~al.ok THEN al
        ELSE LET r == GuardFor(al, lt, last_uses, op_idx, vreg, k)
                 g == r.guard
                 a1 == r.al
             IN  IF ~a1.ok THEN a1
                 ELSE IF g.load # None /\ ~StackFreeOk(a1.stack, g.load)
                 THEN [a1 EXCEPT !.ok = FALSE]
                 ELSE [a1 EXCEPT !.stack = IF g.load # None THEN StackFree(a1.stack, g.load) ELSE a1.stack,
                                 !.location_map = MapPut(a1.location_map, vreg, LocRegister(g.reg)),
                                 !.regmap = MapPut(a1.regmap, <<vreg, op_idx>>, g)]

\* The loop over lifetimes.iter_mut(), in the iteration order of the HashMap.
RECURSIVE AllocVregs(_, _, _, _, _, _)
AllocVregs(al, lt, last_uses, op_idx, order, k) ==
    IF k > Len(order) \/ ~al.ok THEN al
    ELSE AllocVregs(AllocVreg(al, lt, last_uses, op_idx, order[k]), lt, last_uses, op_idx, order, k + 1)

\* Lines 318-320 of allocate: retired vregs leave location_map.
RECURSIVE Retire(_, _)
Retire(al, k) ==
    IF k > Len(al.retired_regs) THEN [al EXCEPT !.retired_regs = <<>>]
    ELSE Retire([al EXCEPT !.location_map = MapRemove(al.location_map, al.retired_regs[k])], k + 1)

\* The body of the loop over the operations of allocate.
AllocOp(al, o, lt, last_uses, order, op_idx) ==
    LET a0 == IF o.op = "Call" THEN AllocCall(al, op_idx) ELSE al
        a1 == AllocVregs(a0, lt, last_uses, op_idx, order, 1)
    IN  IF a1.ok THEN Retire(a1, 1) ELSE a1

\* The state of allocate before its loop (lines 160-175).
AllocInit(lt) ==
    [phys_regs |-> CALLER_SAVED_REGS,
     location_map |-> EmptyMap,
     ireg |-> [v \in DOMAIN lt |-> [k \in 1..Len(lt[v]) |-> None]],
     stack_size |-> 0,
     stack |-> StackDefault,
     stack_saves |-> EmptyMap,
     regmap |-> EmptyMap,
     retired_regs |-> <<>>,
     regs_to_save |-> <<>>,
     evicted |-> <<>>,
     saved |-> <<>>,
     ok |-> TRUE]

\* last_uses of allocate: lifetime.end() - 1 for every vreg.
LastUses(lt) == [v \in DOMAIN lt |-> LifetimeEnd(lt[v]) - 1]

\* The loop over bb.ops of allocate, from operation i on.
RECURSIVE AllocLoop(_, _, _, _, _)
AllocLoop(al, ops, lt, order, i) ==
    IF i >= Len(ops) \/ ~al.ok THEN al
    ELSE AllocLoop(AllocOp(al, ops[i + 1], lt, LastUses(lt), order, i), ops, lt, order, i + 1)

(***************************************************************************)
(* The IR generator (src/ir/codegen.rs).  Variable names are numbers: k is *)
(* the identifier of the k-th variable of the function.                    *)
(***************************************************************************)

\* Expression variants.
Const(n) == [e |-> "Const", n |-> n]
Var(x) == [e |-> "Var", n |-> x]
Addition(l, r) == [e |-> "Addition", l |-> l, r |-> r]
Subtraction(l, r) == [e |-> "Subtraction", l |-> l, r |-> r]
Multiplication(l, r) == [e |-> "Multiplication", l |-> l, r |-> r]

\* Statement variants.
Declare(x, expr) == [s |-> "Declare", var |-> x, expr |-> expr, function |-> ""]
ReturnStmt(expr) == [s |-> "Return", var |-> None, expr |-> expr, function |-> ""]
FnCall(function) == [s |-> "FnCall", var |-> None, expr |-> Const(0), function |-> function]

\* BlockBuilder::new
BlockBuilderNew == [vregs |-> EmptyMap, vreg_counter |-> 0, ops |-> <<>>, ok |-> TRUE]

\* BlockBuilder::get_vreg
get_vreg(bld) == [bld |-> [bld EXCEPT !.vreg_counter = bld.vreg_counter + 1], vreg |-> bld.vreg_counter]

\* BlockBuilder::get_or_insert_vreg
get_or_insert_vreg(bld, x) ==
    IF x \in DOMAIN bld.vregs THEN [bld |-> bld, vreg |-> bld.vregs[x]]
    ELSE LET r == get_vreg(bld)
         IN  [bld |-> [r.bld EXCEPT !.vregs = MapPut(r.bld.vregs, x, r.vreg)], vreg |-> r.vreg]

\* BlockBuilder::src_to_vreg
src_to_vreg(bld, src) ==
    IF src.t = "imm"
    THEN LET r == get_vreg(bld)
         IN  [bld |-> [r.bld EXCEPT !.ops = Append(r.bld.ops, Assign(src, r.vreg))], vreg |-> r.vreg]
    ELSE [bld |-> bld, vreg |-> src.n]

\* dest.unwrap_or_else(|| self.get_vreg())
DestOrFresh(bld, dest) == IF dest # None THEN [bld |-> bld, vreg |-> dest] ELSE get_vreg(bld)

\* BlockBuilder::unroll_expr: the builder afterwards and the SourceVal of the
\* expression.  A todo!() reached in an operand ends the whole call.
RECURSIVE unroll_expr(_, _, _)
unroll_expr(bld, expr, dest) ==
    IF expr.e = "Const" THEN [bld |-> bld, src |-> Imm(expr.n)]
    ELSE IF expr.e = "Var"
    THEN LET r == get_or_insert_vreg(bld, expr.n) IN [bld |-> r.bld, src |-> VReg(r.vreg)]
    ELSE IF expr.e \notin {"Addition", "Subtraction", "Multiplication"}
    THEN [bld |-> [bld EXCEPT !.ok = FALSE], src |-> Imm(0)]
    ELSE LET ra == unroll_expr(bld, expr.l, None)
         IN  IF ~ra.bld.ok THEN ra
             ELSE LET va == IF expr.e = "Multiplication" THEN src_to_vreg(ra.bld, ra.src)
                            ELSE [bld |-> ra.bld, vreg |-> None]
                      rb == unroll_expr(va.bld, expr.r, None)
                  IN  IF ~rb.bld.ok THEN rb
                      ELSE LET vb == IF expr.e = "Multiplication" THEN src_to_vreg(rb.bld, rb.src)
                                     ELSE [bld |-> rb.bld, vreg |-> None]
                               d == DestOrFresh(vb.bld, dest)
                               o == CASE expr.e = "Addition" -> Add(ra.src, rb.src, d.vreg)
                                      [] expr.e = "Subtraction" -> Subtract(ra.src, rb.src, d.vreg)
                                      [] OTHER -> Multiply(va.vreg, vb.vreg, d.vreg)
                           IN  [bld |-> [d.bld EXCEPT !.ops = Append(d.bld.ops, o)],
                                src |-> VReg(d.vreg)]

\* The body of the loop over the statements of BlockBuilder::build.
BuildStmt(bld, stmt) ==
    CASE stmt.s = "Declare" ->
            IF stmt.var \in DOMAIN bld.vregs THEN [bld EXCEPT !.ok = FALSE]
            ELSE LET d == get_or_insert_vreg(bld, stmt.var)
                     r == unroll_expr(d.bld, stmt.expr, d.vreg)
                 IN  [r.bld EXCEPT !.ops = Append(r.bld.ops, Assign(r.src, d.vreg))]
      [] stmt.s = "Return" ->
            LET r == unroll_expr(bld, stmt.expr, None)
            IN  [r.bld EXCEPT !.ops = Append(r.bld.ops, Return(r.src))]
      [] OTHER -> [bld EXCEPT !.ops = Append(bld.ops, Call(stmt.function))]

\* BlockBuilder::build
RECURSIVE BuildLoop(_, _, _)
BuildLoop(bld, block, k) ==
    IF k > Len(block) \/ ~bld.ok THEN bld ELSE BuildLoop(BuildStmt(bld, block[k]), block, k + 1)

build(block) == BuildLoop(BlockBuilderNew, block, 1)

\* IR::generate: one Item::Function per function of the AST.
generate(items) ==
    [k \in 1..Len(items) |-> [name |-> items[k].name, ops |-> build(items[k].body).ops]]

GenerateOk(items) == \A k \in 1..Len(items) : build(items[k].body).ok

(***************************************************************************)
(* Instruction encoders (src/synthesize/arch/arm/instr.rs).  A word is the *)
(* record of the bit fields the encoder fills: opc names the fixed opcode  *)
(* bits, rd is bits 0-4 (Rd/Rt), rn bits 5-9, rm bits 16-20, imm the       *)
(* immediate field of the instruction class.                               *)
(***************************************************************************)

Word(opc, rd, rn, rm, imm) == [opc |-> opc, rd |-> rd, rn |-> rn, rm |-> rm, imm |-> imm]

\* Input::Reg and Input::Imm
InReg(r) == [k |-> "reg", x |-> r]
InImm(n) == [k |-> "imm", x |-> n]

\* Add::encode: the register form puts a in bits 16-20 and b in bits 5-9; the
\* immediate form shifts the sign-extended immediate to bit 10.
EncAdd(a, b, dest) ==
    IF b.k = "reg" THEN Word("ADD_reg", dest, b.x, a, 0)
    ELSE IF b.x >= 0 THEN Word("ADD_imm", dest, a, 0, b.x)
    ELSE Word("UNDEFINED", dest, a, 0, b.x)

\* A branch encoder that takes its operand for a count of bytes; C8 tells it
\* from BranchLink::encode.
EncBranchLinkBytes(addr) == Word("BL", 0, 0, 0, (4 * addr) % 67108864)

\* BranchLink::encode: the low 26 bits of the two's complement of addr.
EncBranchLink(addr) == Word("BL", 0, 0, 0, addr % 67108864)

\* Load::encode: the offset divided by 8 in the imm12 field, base SP.
EncLoad(stack_offset, dest) == Word("LDR", dest, SP, 0, stack_offset \div 8)

\* MovReg::encode: ORR Rd, XZR, Rm.
EncMovReg(src, dest) == Word("MOV", dest, 31, src, 0)

\* Movz::encode with shift L0.
EncMovz(imm_value, dest) == Word("MOVZ", dest, 0, 0, imm_value)

\* Ret::encode
EncRet == Word("RET", 0, LR, 0, 0)

\* Store::encode, immediate form: the offset divided by 8 in the imm12 field.
EncStore(base, offset, register) == Word("STR", register, base, 0, offset \div 8)

\* Syscall::encode: SVC #0x80.
EncSyscall == Word("SVC", 1, 0, 0, 128)

\* Sub, Nop, StorePair, LoadPair and Mul are used by arm.rs; their encoders are
\* not part of instr.rs as given and follow the instruction list of the specification.
EncSub(a, b, dest) ==
    IF b.k = "reg" THEN Word("SUB_reg", dest, a, b.x, 0)
    ELSE IF b.x >= 0 THEN Word("SUB_imm", dest, a, 0, b.x)
    ELSE Word("UNDEFINED", dest, a, 0, b.x)

EncNop == Word("NOP", 0, 0, 0, 0)

EncStorePair(base, first, second, offset) == Word("STP", first, base, second, offset)

EncLoadPair(base, first, second, offset) == Word("LDP", first, base, second, offset)

EncMul(a, b, dest) == Word("MUL", dest, a, b, 0)

(***************************************************************************)
(* The assembler (src/synthesize/arch/arm.rs).  The code buffer is the     *)
(* sequence of its 4-byte words: word k is at byte offset 4 * (k - 1).     *)
(***************************************************************************)

MAIN_FN == "main"

\* ArmAssembler::current_offset
current_offset(code) == 4 * Len(code)

\* n as u16
AsU16(n) == n % 65536

\* n as i16
AsI16(n) == ((n + 32768) % 65536) - 32768

\* ArmAssembler::emit_movz
emit_movz(n, dest) == EncMovz(AsU16(n), dest)

\* ArmAssembler::emit_store
emit_store(offset, register) == EncStore(SP, offset, register)

\* Allocator::map followed by RegisterGuard::unwrap: the register and the
\* instructions of the prelude; ok is FALSE when no guard is recorded.
map_reg(regmap, vreg, instr_index) ==
    IF <<vreg, instr_index>> \notin DOMAIN regmap THEN [ok |-> FALSE, reg |-> None, code |-> <<>>]
    ELSE LET g == regmap[<<vreg, instr_index>>]
         IN  [ok |-> TRUE, reg |-> g.reg,
              code |-> CASE g.g = "Ready" -> <<>>
                         [] g.g = "Load" -> <<EncLoad(g.load, g.reg)>>
                         [] g.g = "Save" -> <<emit_store(g.save, g.reg)>>
                         [] OTHER -> <<EncStore(SP, g.save, g.reg), EncLoad(g.load, g.reg)>>]

\* ArmAssembler::begin_stack: the prologue and the new stack-size log.
begin_stack(stacks, stack_size) ==
    LET head == <<EncStorePair(SP, FP, LR, -2), EncMovReg(SP, FP)>>
        even == IF stack_size % 2 # 0 THEN stack_size + 1 ELSE stack_size
        bytes == even * 8
    IN  IF stack_size # 0
        THEN [ok |-> bytes <= 2047, stacks |-> Append(stacks, bytes),
              code |-> head \o <<EncSub(SP, InImm(bytes), SP)>>]
        ELSE [ok |-> TRUE, stacks |-> stacks, code |-> head]

\* ArmAssembler::end_stack: the epilogue and the new stack-size log.
end_stack(stacks) ==
    LET tail == <<EncLoadPair(SP, FP, LR, 2)>>
    IN  IF Len(stacks) > 0
        THEN [stacks |-> SubSeq(stacks, 1, Len(stacks) - 1),
              code |-> (IF stacks[Len(stacks)] # 0
                        THEN <<EncAdd(SP, InImm(stacks[Len(stacks)]), SP)>> ELSE <<>>) \o tail]
        ELSE [stacks |-> stacks, code |-> tail]

\* The result of emitting one operation: pre holds the guard preludes and the
\* caller-save stores, main the instructions of the operation itself.
Emitted(ok, pre, main) == [ok |-> ok, pre |-> pre, main |-> main]

\* OpEmitter::emit_assign
emit_assign(regmap, o, idx) ==
    LET d == map_reg(regmap, o.dest, idx)
    IN  IF o.a.t = "imm" THEN Emitted(d.ok, d.code, <<emit_movz(o.a.n, d.reg)>>)
        ELSE LET s == map_reg(regmap, o.a.n, idx)
             IN  Emitted(d.ok /\ s.ok, d.code \o s.code, <<EncMovReg(s.reg, d.reg)>>)

\* The immediate check of emit_add and emit_sub: the assertion and i12::new.
Imm12Ok(n) == n <= 32767 /\ AsI16(n) >= -2048 /\ AsI16(n) <= 2047

\* OpEmitter::emit_add and OpEmitter::emit_sub; they differ in the folded
\* constant and in the instruction emitted.
emit_arith(regmap, o, idx) ==
    LET d == map_reg(regmap, o.dest, idx)
        enc(x, y, z) == IF o.op = "Add" THEN EncAdd(x, y, z) ELSE EncSub(x, y, z)
    IN  IF o.a.t = "imm" /\ o.b.t = "imm"
        THEN Emitted(d.ok, d.code,
                     <<emit_movz(IF o.op = "Add" THEN o.a.n + o.b.n ELSE o.a.n - o.b.n, d.reg)>>)
        ELSE IF o.a.t = "imm" \/ o.b.t = "imm"
        THEN LET n == IF o.a.t = "imm" THEN o.a.n ELSE o.b.n
                 vreg == IF o.a.t = "imm" THEN o.b.n ELSE o.a.n
                 a == map_reg(regmap, vreg, idx)
             IN  Emitted(d.ok /\ Imm12Ok(n) /\ a.ok, d.code \o a.code,
                         <<enc(a.reg, InImm(AsI16(n)), d.reg)>>)
        ELSE LET a == map_reg(regmap, o.a.n, idx)
                 b == map_reg(regmap, o.b.n, idx)
             IN  Emitted(d.ok /\ a.ok /\ b.ok, d.code \o a.code \o b.code,
                         <<enc(a.reg, InReg(b.reg), d.reg)>>)

\* OpEmitter::emit_mul
emit_mul(regmap, o, idx) ==
    LET d == map_reg(regmap, o.dest, idx)
        a == map_reg(regmap, o.a.n, idx)
        b == map_reg(regmap, o.b.n, idx)
    IN  Emitted(d.ok /\ a.ok /\ b.ok, d.code \o a.code \o b.code, <<EncMul(a.reg, b.reg, d.reg)>>)

\* OpEmitter::emit_call with dest = None: the caller-save stores, then the placeholder.
emit_call(stack_saves, idx) ==
    LET saves == IF idx \in DOMAIN stack_saves THEN stack_saves[idx] ELSE <<>>
    IN  Emitted(TRUE, [k \in 1..Len(saves) |-> emit_store(saves[k][2], saves[k][1])], <<EncNop>>)

\* OpEmitter::emit_return, without the epilogue of end_stack.
emit_return(regmap, o, idx) ==
    IF o.a.t = "imm" THEN Emitted(TRUE, <<>>, <<emit_movz(o.a.n, X0)>>)
    ELSE LET s == map_reg(regmap, o.a.n, idx)
         IN  Emitted(s.ok, s.code, <<EncMovReg(s.reg, X0)>>)

\* OpEmitter::asm_op
asm_op(regmap, stack_saves, o, idx) ==
    CASE o.op = "Assign" -> emit_assign(regmap, o, idx)
      [] o.op \in {"Add", "Subtract"} -> emit_arith(regmap, o, idx)
      [] o.op = "Multiply" -> emit_mul(regmap, o, idx)
      [] o.op = "Return" -> emit_return(regmap, o, idx)
      [] o.op = "Call" -> emit_call(stack_saves, idx)
      [] OTHER -> Emitted(FALSE, <<>>, <<>>)

(***************************************************************************)
(* Execution of the emitted code.  The code of a function is straight-line,*)
(* so it executes in the order it is emitted.  A machine is the register   *)
(* file (31 is SP or XZR, as the instruction class says) and the memory.   *)
(***************************************************************************)

\* A value nobody wrote: what a clobbered register or an unwritten address holds.
Junk == 0 - 7777

\* SP on entry to a function, and the return address in LR.
InitSP == 4096
InitLR == 9999
InitFP == 8888

MachInit ==
    [regs |-> [r \in 0..31 |-> IF r = SP THEN InitSP ELSE IF r = LR THEN InitLR
                                ELSE IF r = FP THEN InitFP ELSE Junk],
     mem |-> EmptyMap,
     returned |-> FALSE]

\* Register 31 read as XZR.
RegZ(m, r) == IF r = 31 THEN 0 ELSE m.regs[r]

\* Register write where 31 is XZR (discarded).
SetZ(m, r, v) == IF r = 31 THEN m ELSE [m EXCEPT !.regs[r] = v]

MemRead(m, addr) == IF addr \in DOMAIN m.mem THEN m.mem[addr] ELSE Junk

\* The effect of one word, by the AArch64 meaning of its fields.
Exec(m, w) ==
    CASE w.opc = "MOVZ" -> SetZ(m, w.rd, w.imm)
      [] w.opc = "MOV" -> SetZ(m, w.rd, RegZ(m, w.rm))
      [] w.opc = "ADD_reg" -> SetZ(m, w.rd, RegZ(m, w.rn) + RegZ(m, w.rm))
      [] w.opc = "SUB_reg" -> SetZ(m, w.rd, RegZ(m, w.rn) - RegZ(m, w.rm))
      [] w.opc = "MUL" -> SetZ(m, w.rd, RegZ(m, w.rn) * RegZ(m, w.rm))
      [] w.opc = "ADD_imm" -> [m EXCEPT !.regs[w.rd] = m.regs[w.rn] + w.imm]
      [] w.opc = "SUB_imm" -> [m EXCEPT !.regs[w.rd] = m.regs[w.rn] - w.imm]
      [] w.opc = "LDR" -> SetZ(m, w.rd, MemRead(m, m.regs[w.rn] + 8 * w.imm))
      [] w.opc = "STR" -> [m EXCEPT !.mem = MapPut(m.mem, m.regs[w.rn] + 8 * w.imm, RegZ(m, w.rd))]
      [] w.opc = "STP" ->
            LET sp == m.regs[w.rn] + 8 * w.imm
            IN  [m EXCEPT !.regs[w.rn] = sp,
                          !.mem = MapPut(MapPut(m.mem, sp, RegZ(m, w.rd)), sp + 8, RegZ(m, w.rm))]
      [] w.opc = "LDP" ->
            LET sp == m.regs[w.rn]
            IN  [m EXCEPT !.regs = [r \in 0..31 |->
                                       IF r = w.rn THEN sp + 8 * w.imm
                                       ELSE IF r = w.rd THEN MemRead(m, sp)
                                       ELSE IF r = w.rm THEN MemRead(m, sp + 8)
                                       ELSE m.regs[r]]]
      [] w.opc = "RET" -> [m EXCEPT !.returned = TRUE]
      [] OTHER -> m

RECURSIVE ExecAll(_, _, _)
ExecAll(m, ws, k) == IF k > Len(ws) THEN m ELSE ExecAll(Exec(m, ws[k]), ws, k + 1)

\* A call placeholder once patched: the callee returns with SP and the memory
\* at and above SP intact and may leave anything in the caller-saved registers.
ExecCall(m) == [m EXCEPT !.regs = [r \in 0..31 |-> IF r <= 17 THEN Junk ELSE m.regs[r]]]

(***************************************************************************)
(* The meaning of the IR and of the source language, used as the reference *)
(* for the emitted code.                                                   *)
(***************************************************************************)

\* The value of a SourceVal under the values of the vregs.
SrcValue(env, s) == IF s.t = "imm" THEN s.n ELSE IF s.n \in DOMAIN env THEN env[s.n] ELSE Junk

\* The values of the vregs after operation o.
IRStep(env, o) ==
    CASE o.op = "Assign" -> MapPut(env, o.dest, SrcValue(env, o.a))
      [] o.op = "Add" -> MapPut(env, o.dest, SrcValue(env, o.a) + SrcValue(env, o.b))
      [] o.op = "Subtract" -> MapPut(env, o.dest, SrcValue(env, o.a) - SrcValue(env, o.b))
      [] o.op = "Multiply" -> MapPut(env, o.dest, SrcValue(env, o.a) * SrcValue(env, o.b))
      [] OTHER -> env

\* The value of an expression under the values of the variables.
RECURSIVE ExprValue(_, _)
ExprValue(vars, expr) ==
    CASE expr.e = "Const" -> expr.n
      [] expr.e = "Var" -> IF expr.n \in DOMAIN vars THEN vars[expr.n] ELSE Junk
      [] expr.e = "Addition" -> ExprValue(vars, expr.l) + ExprValue(vars, expr.r)
      [] expr.e = "Subtraction" -> ExprValue(vars, expr.l) - ExprValue(vars, expr.r)
      [] OTHER -> ExprValue(vars, expr.l) * ExprValue(vars, expr.r)

\* The value the first return statement of a body yields, None when it has none.
RECURSIVE BodyValue(_, _, _)
BodyValue(vars, body, k) ==
    IF k > Len(body) THEN None
    ELSE CASE body[k].s = "Declare" ->
                 BodyValue(MapPut(vars, body[k].var, ExprValue(vars, body[k].expr)), body, k + 1)
           [] body[k].s = "Return" -> ExprValue(vars, body[k].expr)
           [] OTHER -> BodyValue(vars, body, k + 1)

(***************************************************************************)
(* The analyzer (src/analyze/semantics.rs).                                *)
(***************************************************************************)

\* has_return of Analyzer::item: some statement of the body is a Return.
has_return(body) == \E k \in 1..Len(body) : body[k].s = "Return"

\* Analyzer::item reports no error for the function: only main must return.
AnalyzerItemOk(f) == ~(~has_return(f.body) /\ f.name = "main")

(***************************************************************************)
(* The programs the model compiles.                                        *)
(***************************************************************************)

\* Bounds of the model.
SmallVars == 2
MaxVars == 16
MaxPre == 3
HashMod == 41

\* The numbers of declared variables: a few, and as many as there are registers.
VarCounts == (0..SmallVars) \cup ((MaxVars - 1)..MaxVars)

\* n declarations of constants: variable k is declared with the constant k + 1.
Decls(n) == [k \in 1..n |-> Declare(k - 1, Const(k))]

\* 0, 1, ..., n-1
Asc(n) == [k \in 1..n |-> k - 1]

\* The sum of the variables of a non-empty list as Parser::parse_expr nests
\* it: the first operand, then the sum of the rest.
RECURSIVE SumExpr(_)
SumExpr(L) ==
    IF Len(L) = 1 THEN Var(L[1])
    ELSE Addition(Var(L[1]), SumExpr(Tail(L)))

\* All sequences over S of length at most k.
RECURSIVE SeqsUpTo(_, _)
SeqsUpTo(S, k) ==
    IF k = 0 THEN {<<>>}
    ELSE LET shorter == SeqsUpTo(S, k - 1)
         IN  shorter \cup {Append(q, x) : q \in shorter, x \in S}

\* The operand lists of the sums: at most m uses of the last two variables,
\* then optionally every variable in order, then optionally the first again.
SumLists(n, m) ==
    IF n = 0 THEN {}
    ELSE {pre \o mid \o post :
             pre \in SeqsUpTo({n - 1, n - 2} \cap (0..(n - 1)), m),
             mid \in {<<>>, Asc(n)},
             post \in {<<>>, <<0>>}} \ {<<>>}

\* The statements after the declarations.
ReturnTails(n, m) ==
    {<<ReturnStmt(Const(c))>> : c \in {0, 1}} \cup {<<ReturnStmt(SumExpr(L))>> : L \in SumLists(n, m)}

DeclareTails(n) == {<<Declare(n, SumExpr(L))>> : L \in SumLists(n, MaxPre)} \cup {<<>>}

\* The declarations with a call of `function` after the first c of them (None: no call).
WithCall(n, c, function) ==
    IF c = None THEN Decls(n)
    ELSE SubSeq(Decls(n), 1, c) \o <<FnCall(function)>> \o SubSeq(Decls(n), c + 1, n)

CallPlaces(n) == {None} \cup ({1, n} \cap (1..n))

Function(name, body) == [name |-> name, body |-> body]

\* Programs of one function main that declares constants and returns.
MainPrograms ==
    UNION {{<<Function("main", Decls(n) \o t)>> : t \in ReturnTails(n, MaxPre)} : n \in VarCounts}

\* A callee f that returns a constant, and a main that calls it among its
\* declarations; the sums of these programs start with at most one repeated use.
CallerPrograms ==
    UNION {UNION {{<<Function("f", <<ReturnStmt(Const(1))>>),
                     Function("main", WithCall(n, c, callee) \o t)>> :
                       t \in ReturnTails(n, 1), callee \in {"f"}} :
                  c \in CallPlaces(n) \ {None}} : n \in VarCounts}

\* c, c+1, ..., n-1
From(c, n) == [k \in 1..(n - c) |-> k - 1 + c]

\* A main that keeps SmallVars variables across a call of f, declares as many
\* more as there are registers, and returns a sum of the later ones, with or
\* without one of the earlier ones at the end.
SpillPrograms ==
    {<<Function("f", <<ReturnStmt(Const(1))>>),
       Function("main", WithCall(SmallVars + MaxVars, SmallVars, "f")
                        \o <<ReturnStmt(SumExpr(pre \o From(SmallVars, SmallVars + MaxVars) \o post))>>)>> :
        pre \in SeqsUpTo({SmallVars + MaxVars - 1, SmallVars + MaxVars - 2}, MaxPre),
        post \in {<<>>, <<SmallVars - 1>>}}

\* A function f without a return statement, before or after a small main.
NoReturnPrograms ==
    UNION {UNION {{<<Function("f", WithCall(n, c, "main") \o t),
                     Function("main", <<ReturnStmt(Const(0))>>)>> :
                       t \in DeclareTails(n)} :
                  c \in {None}} : n \in VarCounts}

\* Programs whose functions call forwards, backwards, or a name nobody defines.
SmallBodies ==
    {<<>>,
     <<ReturnStmt(Const(0))>>,
     <<FnCall("f"), ReturnStmt(Const(0))>>,
     <<FnCall("g"), ReturnStmt(Const(0))>>,
     <<Declare(0, Const(1)), FnCall("main"), ReturnStmt(Var(0))>>,
     <<Declare(0, Const(1)), Declare(1, Const(2)), FnCall("f"), FnCall("f"), ReturnStmt(Var(0))>>}

\* Programs of one function main that subtract, multiply and fold constants.
ArithBodies ==
    {<<Declare(0, Const(5)), Declare(1, Subtraction(Var(0), Const(2))), ReturnStmt(Var(1))>>,
     <<Declare(0, Const(5)), Declare(1, Subtraction(Const(7), Var(0))), ReturnStmt(Var(1))>>,
     <<Declare(0, Const(2)), Declare(1, Multiplication(Var(0), Const(3))),
       ReturnStmt(Addition(Var(1), Var(0)))>>,
     <<Declare(0, Addition(Const(2), Const(3))), ReturnStmt(Var(0))>>,
     <<Declare(0, Const(1)), Declare(1, Var(0)), ReturnStmt(Addition(Var(1), Const(1)))>>,
     <<ReturnStmt(Multiplication(Const(3), Subtraction(Const(4), Const(1))))>>}

ArithPrograms == {<<Function("main", body)>> : body \in ArithBodies}

\* Number literals around the limits of the 12-bit and the 16-bit immediate
\* fields; the lexer reads a literal as an i64.
ImmValues == {2047, 2048, 65535, 65536}

\* Programs of one function main that use a literal as the immediate of an
\* Add, of a Subtract, of an Assign, of a Return and of a folded constant.
ImmBodies ==
    UNION {{<<Declare(0, Const(1)), ReturnStmt(Addition(Var(0), Const(n)))>>,
            <<Declare(0, Const(n)), ReturnStmt(Subtraction(Var(0), Const(1)))>>,
            <<Declare(0, Const(3000)), ReturnStmt(Subtraction(Var(0), Const(n)))>>,
            <<ReturnStmt(Const(n))>>,
            <<ReturnStmt(Addition(Const(n), Const(1)))>>,
            <<ReturnStmt(Subtraction(Const(1), Const(n)))>>} : n \in ImmValues}

ImmPrograms == {<<Function("main", body)>> : body \in ImmBodies}

LinkPrograms ==
    {<<Function(a, x), Function(b, y)>> :
        a \in {"f"}, b \in {"main", "h"}, x \in SmallBodies, y \in SmallBodies}
    \cup {<<Function(b, y), Function(a, x)>> :
        a \in {"f"}, b \in {"main"}, x \in SmallBodies, y \in SmallBodies}

Programs ==
    MainPrograms \cup CallerPrograms \cup SpillPrograms \cup NoReturnPrograms \cup ArithPrograms
    \cup ImmPrograms \cup LinkPrograms

\* The iteration orders of the HashMap of lifetimes: the order of the keys under
\* a multiplicative hash, one per seed.  Seed 1 is ascending vreg order.
Seeds == {1, HashMod - 1, 7}

HashKey(seed, v) == (seed * (v + 1)) % HashMod

\* x comes before y in the iteration order of the seed.
HashBefore(seed, x, y) ==
    \/ HashKey(seed, x) < HashKey(seed, y)
    \/ (HashKey(seed, x) = HashKey(seed, y) /\ x < y)

HashOrder(seed, S) ==
    [k \in 1..Cardinality(S) |->
        CHOOSE x \in S : Cardinality({y \in S : HashBefore(seed, y, x)}) = k - 1]

(***************************************************************************)
(* The compiler as a state machine.                                        *)
(***************************************************************************)

VARIABLES
    ast,        \* the program being compiled
    pc,         \* generate, item, alloc, emit, fixup, done, panic
    ir,         \* IR.items
    item,       \* 1-based index of the function being assembled
    bb,         \* its operations
    order,      \* iteration order of its lifetimes map
    lt,         \* lifetimes of bb
    op_idx,     \* loop index of allocate, then of asm_item
    al,         \* the state of allocate, and its result once the loop is over
    code,       \* MachineCode.instructions, in words
    entry_point_offset, \* MachineCode.entry_point_offset
    functions,  \* ArmAssembler.functions
    fn_calls,   \* ArmAssembler.fn_calls
    stacks,     \* ArmAssembler.stacks
    fix_idx,    \* loop index of the fixup loop of assemble
    stub_offset,\* byte offset at which the entry sequence was appended
    mach,       \* the machine after the code emitted so far for this function
    mach_pre,   \* the machine after the preludes of the last operation emitted
    env,        \* the values of the vregs after the operations emitted so far
    env_pre,    \* the values of the vregs before the last operation emitted
    pool,       \* a Stack pool driven on its own, by calls of alloc and free
    pool_log,   \* the calls made on pool, with the pool each one found
    pool_pc     \* idle, run, panic

compiler_vars ==
    <<ast, pc, ir, item, bb, order, lt, op_idx, al, code, entry_point_offset,
      functions, fn_calls, stacks, fix_idx, stub_offset, mach, mach_pre, env, env_pre>>

pool_vars == <<pool, pool_log, pool_pc>>

vars == <<compiler_vars, pool_vars>>

Init ==
    /\ ast \in Programs
    /\ pc = "generate"
    /\ ir = <<>>
    /\ item = 1
    /\ bb = <<>>
    /\ order = <<>>
    /\ lt = EmptyMap
    /\ op_idx = 0
    /\ al = AllocInit(EmptyMap)
    /\ code = <<>>
    /\ entry_point_offset = 0
    /\ functions = EmptyMap
    /\ fn_calls = <<>>
    /\ stacks = <<>>
    /\ fix_idx = 1
    /\ stub_offset = None
    /\ mach = MachInit
    /\ mach_pre = MachInit
    /\ env = EmptyMap
    /\ env_pre = EmptyMap
    /\ pool = StackDefault
    /\ pool_log = <<>>
    /\ pool_pc = "idle"

\* IR::generate
Generate ==
    /\ pc = "generate"
    /\ IF GenerateOk(ast)
       THEN ir' = generate(ast) /\ pc' = "item"
       ELSE ir' = ir /\ pc' = "panic"
    /\ UNCHANGED pool_vars
    /\ UNCHANGED <<ast, item, bb, order, lt, op_idx, al, code, entry_point_offset, functions,
                   fn_calls, stacks, fix_idx, stub_offset, mach, mach_pre, env, env_pre>>

\* ArmAssembler::asm_item up to the loop of allocate: the function's offset is
\* recorded, its lifetimes are computed and the allocator state is set up.
AsmItemBegin ==
    /\ pc = "item"
    /\ item <= Len(ir)
    /\ \E seed \in Seeds :
          LET r == lifetimes_of(ir[item].ops)
          IN  /\ functions' = MapPut(functions, ir[item].name, current_offset(code))
              /\ bb' = ir[item].ops
              /\ lt' = r.lifetimes
              /\ order' = HashOrder(seed, DOMAIN r.lifetimes)
              /\ al' = AllocInit(r.lifetimes)
              /\ pc' = IF r.ok THEN "alloc" ELSE "panic"
    /\ op_idx' = 0
    /\ UNCHANGED pool_vars
    /\ UNCHANGED <<ast, ir, item, code, entry_point_offset, fn_calls, stacks, fix_idx,
                   stub_offset, mach, mach_pre, env, env_pre>>

\* One iteration of the loop over bb.ops of allocate.
AllocStep ==
    /\ pc = "alloc"
    /\ op_idx < Len(bb)
    /\ al' = AllocOp(al, bb[op_idx + 1], lt, LastUses(lt), order, op_idx)
    /\ pc' = IF al'.ok THEN "alloc" ELSE "panic"
    /\ op_idx' = op_idx + 1
    /\ UNCHANGED pool_vars
    /\ UNCHANGED <<ast, ir, item, bb, order, lt, code, entry_point_offset, functions,
                   fn_calls, stacks, fix_idx, stub_offset, mach, mach_pre, env, env_pre>>

\* allocate returns and asm_item calls begin_stack with its stack_size.
BeginStack ==
    /\ pc = "alloc"
    /\ op_idx = Len(bb)
    /\ LET r == begin_stack(stacks, al.stack_size)
       IN  /\ code' = code \o r.code
           /\ stacks' = r.stacks
           /\ mach' = ExecAll(MachInit, r.code, 1)
           /\ mach_pre' = ExecAll(MachInit, r.code, 1)
           /\ pc' = IF ~r.ok THEN "panic" ELSE IF Len(bb) = 0 THEN "item" ELSE "emit"
    /\ item' = IF Len(bb) = 0 THEN item + 1 ELSE item
    /\ op_idx' = 0
    /\ env' = EmptyMap
    /\ env_pre' = EmptyMap
    /\ UNCHANGED pool_vars
    /\ UNCHANGED <<ast, ir, bb, order, lt, al, entry_point_offset, functions, fn_calls,
                   fix_idx, stub_offset>>

\* One iteration of the loop over bb.ops of asm_item: asm_op on operation op_idx.
EmitOp ==
    /\ pc = "emit"
    /\ op_idx < Len(bb)
    /\ LET o == bb[op_idx + 1]
           r == asm_op(al.regmap, al.stack_saves, o, op_idx)
           e == IF o.op = "Return" THEN end_stack(stacks) ELSE [stacks |-> stacks, code |-> <<>>]
           main == r.main \o e.code \o (IF o.op = "Return" THEN <<EncRet>> ELSE <<>>)
           m1 == ExecAll(mach, r.pre, 1)
       IN  IF ~r.ok
           THEN /\ pc' = "panic"
                /\ UNCHANGED <<code, fn_calls, stacks, mach, mach_pre, env, env_pre, item>>
           ELSE /\ code' = code \o r.pre \o main
                /\ fn_calls' = IF o.op = "Call"
                               THEN Append(fn_calls, <<o.function, current_offset(code \o r.pre)>>)
                               ELSE fn_calls
                /\ stacks' = e.stacks
                /\ mach_pre' = m1
                /\ mach' = IF o.op = "Call" THEN ExecCall(m1) ELSE ExecAll(m1, main, 1)
                /\ env_pre' = env
                /\ env' = IRStep(env, o)
                /\ pc' = IF op_idx + 1 = Len(bb) THEN "item" ELSE "emit"
                /\ item' = IF op_idx + 1 = Len(bb) THEN item + 1 ELSE item
    /\ op_idx' = op_idx + 1
    /\ UNCHANGED pool_vars
    /\ UNCHANGED <<ast, ir, bb, order, lt, al, entry_point_offset, functions, fix_idx, stub_offset>>

\* assemble after the loop over the items: the call of main, the exit syscall.
EntryStub ==
    /\ pc = "item"
    /\ item > Len(ir)
    /\ stub_offset' = current_offset(code)
    /\ fn_calls' = Append(fn_calls, <<MAIN_FN, current_offset(code)>>)
    /\ code' = code \o <<EncNop, EncMovz(1, X16), EncSyscall>>
    /\ pc' = "fixup"
    /\ fix_idx' = 1
    /\ UNCHANGED pool_vars
    /\ UNCHANGED <<ast, ir, item, bb, order, lt, op_idx, al, entry_point_offset, functions,
                   stacks, mach, mach_pre, env, env_pre>>

\* A fixup loop that leaves the call to an unknown function as it is and goes
\* on; C18 tells it from the loop of assemble.
FixupSkipUnknown ==
    /\ pc = "fixup"
    /\ fix_idx <= Len(fn_calls)
    /\ LET function == fn_calls[fix_idx][1]
           call_offset == fn_calls[fix_idx][2]
       IN  /\ code' = IF function \notin DOMAIN functions
                      THEN code
                      ELSE [code EXCEPT ![(call_offset \div 4) + 1] =
                                EncBranchLink((functions[function] - call_offset) \div 4)]
           /\ pc' = IF fix_idx = Len(fn_calls) THEN "done" ELSE "fixup"
    /\ fix_idx' = fix_idx + 1
    /\ UNCHANGED pool_vars
    /\ UNCHANGED <<ast, ir, item, bb, order, lt, op_idx, al, entry_point_offset, functions,
                   fn_calls, stacks, stub_offset, mach, mach_pre, env, env_pre>>

\* One iteration of the loop over the recorded calls of assemble.
Fixup ==
    /\ pc = "fixup"
    /\ fix_idx <= Len(fn_calls)
    /\ LET function == fn_calls[fix_idx][1]
           call_offset == fn_calls[fix_idx][2]
       IN  IF function \notin DOMAIN functions
           THEN pc' = "panic" /\ code' = code
           ELSE LET rel_offset == (functions[function] - call_offset) \div 4
                IN  /\ code' = [code EXCEPT ![(call_offset \div 4) + 1] = EncBranchLink(rel_offset)]
                    /\ pc' = IF fix_idx = Len(fn_calls) THEN "done" ELSE "fixup"
    /\ fix_idx' = fix_idx + 1
    /\ UNCHANGED pool_vars
    /\ UNCHANGED <<ast, ir, item, bb, order, lt, op_idx, al, entry_point_offset, functions,
                   fn_calls, stacks, stub_offset, mach, mach_pre, env, env_pre>>

Next ==
    \/ Generate
    \/ AsmItemBegin
    \/ AllocStep
    \/ BeginStack
    \/ EmitOp
    \/ EntryStub
    \/ Fixup

Spec == Init /\ [][Next]_vars

(***************************************************************************)
(* The Stack pool on its own: any sequence of alloc and free calls on a    *)
(* fresh pool, as the unit tests of reg.rs drive it.                       *)
(***************************************************************************)

\* Bounds of the pool runs: the pool grows to MaxSlots slots at most, and a
\* run makes MaxPoolOps calls at most.
MaxSlots == 3
MaxPoolOps == 7

\* One call on the pool: the pool it found, the slot returned or passed, and
\* whether the call returned (ok) or aborted.
PoolCall(op, slot, ok) ==
    [op |-> op, slot |-> slot, ok |-> ok,
     size_before |-> pool.stack_size, free_before |-> pool.free_slots]

\* Stack::default(), with no compilation going on.
PoolInit ==
    /\ pool = StackDefault
    /\ pool_log = <<>>
    /\ pool_pc = "run"
    /\ ast = <<>>
    /\ pc = "idle"
    /\ ir = <<>>
    /\ item = 1
    /\ bb = <<>>
    /\ order = <<>>
    /\ lt = EmptyMap
    /\ op_idx = 0
    /\ al = AllocInit(EmptyMap)
    /\ code = <<>>
    /\ entry_point_offset = 0
    /\ functions = EmptyMap
    /\ fn_calls = <<>>
    /\ stacks = <<>>
    /\ fix_idx = 1
    /\ stub_offset = None
    /\ mach = MachInit
    /\ mach_pre = MachInit
    /\ env = EmptyMap
    /\ env_pre = EmptyMap

\* stack.alloc()
PoolAlloc ==
    /\ pool_pc = "run"
    /\ Len(pool_log) < MaxPoolOps
    /\ Len(pool.free_slots) > 0 \/ pool.stack_size < MaxSlots
    /\ LET r == StackAlloc(pool)
       IN  /\ pool' = r.stack
           /\ pool_log' = Append(pool_log, PoolCall("alloc", r.slot, TRUE))
    /\ UNCHANGED pool_pc
    /\ UNCHANGED compiler_vars

\* stack.free(slot): the call aborts when one of its assertions fails.
PoolFree ==
    /\ pool_pc = "run"
    /\ Len(pool_log) < MaxPoolOps
    /\ \E slot \in 0..MaxSlots :
          IF StackFreeOk(pool, slot)
          THEN /\ pool' = StackFree(pool, slot)
               /\ pool_log' = Append(pool_log, PoolCall("free", slot, TRUE))
               /\ pool_pc' = "run"
          ELSE /\ pool' = pool
               /\ pool_log' = Append(pool_log, PoolCall("free", slot, FALSE))
               /\ pool_pc' = "panic"
    /\ UNCHANGED compiler_vars

PoolNext ==
    \/ PoolAlloc
    \/ PoolFree

PoolSpec == PoolInit /\ [][PoolNext]_vars

(***************************************************************************)
(* Properties of the register allocator.                                   *)
(***************************************************************************)

\* allocate has returned for the block bb: al is its result.
Allocated == pc = "alloc" /\ op_idx = Len(bb)

\* Some interval of the lifetime of v contains position i.
Live(v, i) == v \in DOMAIN lt /\ \E k \in 1..Len(lt[v]) : lt[v][k].start <= i /\ i < lt[v][k].end

\* The positions of bb.
Positions == 0..(Len(bb) - 1)

\* The vregs operation i of bb mentions.
Mentioned(i) == Range(vregs_used(bb[i + 1]))

\* C1: at every instruction index, two distinct vregs whose lifetimes both
\* contain the index have guards that name different physical registers.
C1_DistinctRegisters ==
    Allocated =>
        \A i \in Positions : \A v \in DOMAIN lt : \A w \in DOMAIN lt :
            (v # w /\ Live(v, i) /\ Live(w, i)
               /\ <<v, i>> \in DOMAIN al.regmap /\ <<w, i>> \in DOMAIN al.regmap)
            => al.regmap[<<v, i>>].reg # al.regmap[<<w, i>>].reg

\* The operation emitted last read its sources and wrote its destination.
Emitted1 == pc \in {"emit", "item"} /\ op_idx >= 1 /\ op_idx <= Len(bb)

\* The source vregs of an operation: what it reads.
Sources(o) ==
    {s.n : s \in {x \in (IF o.op \in {"Add", "Subtract", "Multiply", "Divide"} THEN {o.a, o.b}
                         ELSE IF o.op \in {"Assign", "Return"} THEN {o.a} ELSE {}) : x.t = "vreg"}}

\* C2: after the prelude of a guard has executed, the register of the guard
\* holds the value most recently assigned to its vreg: every source of the
\* operation emitted last is read from a register holding its value, and the
\* destination's register holds the result afterwards.
C2_ValuePreserved ==
    Emitted1 =>
        LET o == bb[op_idx]
            i == op_idx - 1
        IN  /\ \A v \in Sources(o) :
                  <<v, i>> \in DOMAIN al.regmap => mach_pre.regs[al.regmap[<<v, i>>].reg] = env_pre[v]
            /\ (o.dest # None /\ <<o.dest, i>> \in DOMAIN al.regmap)
                  => mach.regs[al.regmap[<<o.dest, i>>].reg] = env[o.dest]

\* C3: the result of allocate holds a guard for (v, i) exactly when some
\* interval of the lifetime of v contains i; every vreg an operation mentions
\* has a guard at that operation, and no guard belongs to a vreg the block
\* does not mention.
C3_GuardCoverage ==
    Allocated =>
        /\ \A v \in DOMAIN lt : \A i \in Positions : <<v, i>> \in DOMAIN al.regmap <=> Live(v, i)
        /\ \A p \in DOMAIN al.regmap : p[1] \in DOMAIN lt /\ p[2] \in Positions
        /\ \A i \in Positions : \A v \in Mentioned(i) : <<v, i>> \in DOMAIN al.regmap
        /\ \A p \in DOMAIN al.regmap : \E i \in Positions : p[1] \in Mentioned(i)

\* A vreg with two intervals has guards in both and none in the gap between them.
C3_Witness ==
    /\ Allocated
    /\ \E v \in DOMAIN lt : \E i \in Positions :
          /\ Len(lt[v]) >= 2
          /\ ~Live(v, i) /\ <<v, i>> \notin DOMAIN al.regmap
          /\ \E j \in Positions : \E k \in Positions :
                j < i /\ i < k /\ <<v, j>> \in DOMAIN al.regmap /\ <<v, k>> \in DOMAIN al.regmap

\* The stack slots the result of allocate names: the save and load slots of
\* its guards and the slots of its caller-save lists.
SlotsUsed ==
    {al.regmap[p].save : p \in DOMAIN al.regmap} \cup {al.regmap[p].load : p \in DOMAIN al.regmap}
    \cup UNION {{al.stack_saves[c][k][2] : k \in 1..Len(al.stack_saves[c])} : c \in DOMAIN al.stack_saves}

\* C4: the stack size allocate returns is at least the highest slot index
\* that appears in its guards and caller-save lists.
C4_StackSizeCoversSlots ==
    Allocated => \A s \in SlotsUsed \ {None} : al.stack_size >= s

\* The spills of vreg v the allocator performed: evictions of v and
\* caller-saves of v, as slot and operation index.  An eviction made for a
\* vreg that comes after w in the iteration order does not precede w's guard
\* at the same operation.
SpillsBefore(v, w, i) ==
    {[slot |-> al.evicted[k].slot, idx |-> al.evicted[k].idx] :
        k \in {j \in 1..Len(al.evicted) :
                 /\ al.evicted[j].victim = v
                 /\ al.regmap[<<al.evicted[j].by, al.evicted[j].idx>>].save = al.evicted[j].slot
                 /\ \/ al.evicted[j].idx < i
                    \/ /\ al.evicted[j].idx = i
                       /\ Position(order, al.evicted[j].by) < Position(order, w)}}
    \cup {[slot |-> al.saved[k].slot, idx |-> al.saved[k].idx] :
            k \in {j \in 1..Len(al.saved) :
                     /\ al.saved[j].vreg = v
                     /\ al.saved[j].idx <= i
                     /\ <<al.saved[j].reg, al.saved[j].slot>> \in Range(al.stack_saves[al.saved[j].idx])}}

\* The guards recorded so far that reload their vreg.
Reloads == {p \in DOMAIN al.regmap : al.regmap[p].load # None}

\* C5: the load slot of every Load and SaveAndLoad guard for a vreg v is a
\* slot an earlier spill assigned to v (an eviction of v, or the caller-save
\* of v's register at a Call), and v was not reloaded from it in between.
C5_LoadFromOwnSpill ==
    pc = "alloc" =>
        \A p \in Reloads :
            \E e \in SpillsBefore(p[1], p[1], p[2]) :
                /\ e.slot = al.regmap[p].load
                /\ \A q \in Reloads :
                      (q[1] = p[1] /\ e.idx <= q[2] /\ q[2] < p[2]) => al.regmap[q].load # e.slot

\* One vreg saved around a call and one evicted vreg have both been reloaded.
C5_Witness ==
    /\ Allocated
    /\ \E p \in Reloads : \E k \in 1..Len(al.saved) :
          /\ al.saved[k].vreg = p[1]
          /\ al.saved[k].slot = al.regmap[p].load
          /\ al.saved[k].idx < p[2]
    /\ \E p \in Reloads : \E k \in 1..Len(al.evicted) :
          /\ al.evicted[k].victim = p[1]
          /\ al.evicted[k].slot = al.regmap[p].load
          /\ al.evicted[k].idx < p[2]

\* The result of allocate on bb when the lifetimes iterate in the order of a seed.
AllocateWith(seed) == AllocLoop(AllocInit(lt), bb, lt, HashOrder(seed, DOMAIN lt), 0)

\* C6: allocate is deterministic: whatever the iteration order of the
\* lifetimes, it yields the guards, the stack size and the caller-save lists
\* it yields when the vregs are visited in ascending order.
C6_Deterministic ==
    Allocated =>
        LET a == AllocateWith(1)
        IN  /\ a.ok
            /\ a.regmap = al.regmap
            /\ a.stack_size = al.stack_size
            /\ a.stack_saves = al.stack_saves

(***************************************************************************)
(* Properties of the assembler.                                            *)
(***************************************************************************)

\* C7: the epilogue of a function adds back to SP what the prologue of the
\* same function subtracted, so SP at ret is SP at entry, and the log of
\* stack sizes holds nothing when the emission of a function begins: no
\* function receives the adjustment of another.
C7_StackBalanced ==
    /\ mach.returned => mach.regs[SP] = InitSP
    /\ pc = "alloc" => stacks = <<>>

\* The byte offset of the first instruction of the k-th function: the k-th
\* store of the frame pair in the buffer.
FrameStarts == {k \in 1..Len(code) : code[k].opc = "STP"}

StartOfItem(k) == 4 * (CHOOSE w \in FrameStarts : Cardinality({x \in FrameStarts : x < w}) = k - 1) - 4

\* The index of the function a name resolves to: the last one of that name.
ItemNamed(name) == SetMax({k \in 1..Len(ir) : ir[k].name = name})

\* The signed value of an imm26 field.
Signed26(n) == IF n >= 33554432 THEN n - 67108864 ELSE n

\* The number of Call operations of the program.
RECURSIVE CallCount(_)
CallCount(k) ==
    IF k = 0 THEN 0
    ELSE CallCount(k - 1) + Cardinality({j \in 1..Len(ir[k].ops) : ir[k].ops[j].op = "Call"})

\* C8: when assemble is done, the word at every recorded call offset is a BL
\* whose imm26 is (callee start - call offset) / 4, so that it branches to the
\* first instruction of the callee; every Call and the entry call is
\* recorded, and no placeholder is left.
C8_CallsPatched ==
    pc = "done" =>
        /\ Len(fn_calls) = CallCount(Len(ir)) + 1
        /\ \A k \in 1..Len(code) : code[k].opc # "NOP"
        /\ \A k \in 1..Len(fn_calls) :
              LET w == code[(fn_calls[k][2] \div 4) + 1]
              IN  /\ w.opc = "BL"
                  /\ fn_calls[k][2] + 4 * Signed26(w.imm) = StartOfItem(ItemNamed(fn_calls[k][1]))

\* A backward call and a forward call have both been patched.
C8_Witness ==
    /\ pc = "done"
    /\ \E k \in 1..Len(fn_calls) : Signed26(code[(fn_calls[k][2] \div 4) + 1].imm) < 0
    /\ \E k \in 1..Len(fn_calls) : Signed26(code[(fn_calls[k][2] \div 4) + 1].imm) > 0

\* C9: the entry point offset of the machine code is the byte offset at
\* which the entry sequence starts.
C9_EntryPoint == pc = "done" => entry_point_offset = stub_offset

\* C10: for a program of one function main that declares constants and
\* returns a constant, a variable or a sum of variables, the code of main
\* leaves the value of the returned expression in X0 at ret.
C10_ReturnValue ==
    (ast \in MainPrograms /\ mach.returned) => mach.regs[X0] = BodyValue(EmptyMap, ast[1].body, 1)

(***************************************************************************)
(* Properties of the whole compilation.                                    *)
(***************************************************************************)

\* C11: a program whose function main has no return statement is rejected:
\* machine code is produced only when the analyzer accepts every function.
C11_MainMustReturn == pc = "done" => \A k \in 1..Len(ast) : AnalyzerItemOk(ast[k])

(***************************************************************************)
(* Properties of the lifetimes.                                            *)
(***************************************************************************)

\* BasicBlock::lifetimes has returned lt for the block bb.
LifetimesComputed == pc = "alloc" /\ op_idx = 0

\* The vregs operation o reads or writes.
UsedOrDefined(o) == Sources(o) \cup (IF o.dest # None THEN {o.dest} ELSE {})

\* C12: every instruction index at which a vreg is used as a source or
\* defined as a destination lies inside some interval of its lifetime.
C12_UsesCovered ==
    LifetimesComputed => \A i \in Positions : \A v \in UsedOrDefined(bb[i + 1]) : Live(v, i)

\* A block in which one vreg is written at one index and read at two later
\* ones that are apart, and one operation reads two vregs and writes a third.
C12_Witness ==
    /\ LifetimesComputed
    /\ \E v \in DOMAIN lt : Len(lt[v]) >= 3
    /\ \E i \in Positions : Cardinality(UsedOrDefined(bb[i + 1])) = 3

\* The intervals of one lifetime are non-empty ranges in strictly increasing,
\* non-overlapping order.
WellFormed(intervals) ==
    /\ Len(intervals) >= 1
    /\ \A k \in 1..Len(intervals) : intervals[k].start < intervals[k].end
    /\ \A k \in 1..(Len(intervals) - 1) :
          /\ intervals[k].start < intervals[k + 1].start
          /\ intervals[k].end <= intervals[k + 1].start

\* C13: every vreg an operation mentions has a non-empty lifetime, each
\* interval starts before it ends, the intervals of one vreg are pairwise
\* disjoint and in strictly increasing order of start, and the assertions of
\* insert_interval never fire.
C13_LifetimesWellFormed ==
    pc \in {"alloc", "panic"} /\ op_idx = 0 =>
        /\ lifetimes_of(bb).ok
        /\ \A i \in Positions : UsedOrDefined(bb[i + 1]) \subseteq DOMAIN lt
        /\ \A v \in DOMAIN lt : WellFormed(lt[v])

\* A lifetime of several intervals, one of them longer than one instruction.
C13_Witness ==
    /\ LifetimesComputed
    /\ \E v \in DOMAIN lt :
          /\ Len(lt[v]) >= 2
          /\ \E k \in 1..Len(lt[v]) : lt[v][k].end - lt[v][k].start >= 2

(***************************************************************************)
(* Properties of the Stack pool.                                           *)
(***************************************************************************)

\* The stack_size the k-th call of the log left behind.
SizeAfter(k) == IF k = Len(pool_log) THEN pool.stack_size ELSE pool_log[k + 1].size_before

\* C14: on a fresh pool, k consecutive alloc() calls with no free in between
\* return the slots 0, 1, ..., k-1 in that order and leave stack_size at k.
C14_FreshAllocs ==
    (\A k \in 1..Len(pool_log) : pool_log[k].op = "alloc") =>
        /\ \A k \in 1..Len(pool_log) : pool_log[k].slot = k - 1
        /\ pool.stack_size = Len(pool_log)

\* Three allocations on a fresh pool and nothing else.
C14_Witness ==
    /\ pool_pc = "run"
    /\ Len(pool_log) = 3
    /\ \A k \in 1..Len(pool_log) : pool_log[k].op = "alloc"

\* C15: in any pool state reached by alloc and free calls, freeing an allocated
\* slot s and then calling alloc() returns s, and stack_size is the same after
\* the pair as before it.
C15_FreeThenAlloc ==
    \A k \in 1..(Len(pool_log) - 1) :
        pool_log[k].op = "free" /\ pool_log[k].ok /\ pool_log[k + 1].op = "alloc" =>
            /\ pool_log[k + 1].slot = pool_log[k].slot
            /\ SizeAfter(k + 1) = pool_log[k].size_before

\* A slot is freed while another one is on the free list already, and the next
\* call is an alloc.
C15_Witness ==
    \E k \in 1..(Len(pool_log) - 1) :
        /\ pool_log[k].op = "free" /\ pool_log[k].ok
        /\ Len(pool_log[k].free_before) > 0
        /\ pool_log[k + 1].op = "alloc"

\* C16: Stack::free(s) aborts when s was never allocated (s >= stack_size) and
\* when s is on the free list already; in both cases the free list is not
\* extended.
C16_BadFreeAborts ==
    \A k \in 1..Len(pool_log) :
        /\ pool_log[k].op = "free"
        /\ pool_log[k].slot >= pool_log[k].size_before \/ Contains(pool_log[k].free_before, pool_log[k].slot)
        => /\ ~pool_log[k].ok
           /\ pool_pc = "panic"
           /\ k = Len(pool_log)
           /\ pool.free_slots = pool_log[k].free_before

\* A double free: the last call frees an allocated slot that is on the free
\* list already.
C16_Witness ==
    /\ pool_pc = "panic"
    /\ LET c == pool_log[Len(pool_log)]
       IN  /\ c.op = "free"
           /\ c.slot < c.size_before
           /\ Contains(c.free_before, c.slot)

CallerSaveStep ==
    pc = "alloc" /\ op_idx < Len(bb) =>
        LET held == InRegister(al.location_map)
            saving == bb[op_idx + 1].op = "Call" /\ held # {}
        IN  /\ DOMAIN al'.stack_saves = DOMAIN al.stack_saves \cup (IF saving THEN {op_idx} ELSE {})
            /\ \A i \in DOMAIN al.stack_saves : al'.stack_saves[i] = al.stack_saves[i]
            /\ saving =>
                  LET pairs == al'.stack_saves[op_idx]
                  IN  /\ Len(pairs) = Cardinality(held)
                      /\ \A v \in held : \E k \in 1..Len(pairs) :
                            /\ pairs[k][1] = al.location_map[v].x
                            /\ al'.location_map[v] = LocStack(pairs[k][2])

\* C17: stack_save(i) is present exactly when operation i is a Call reached
\* with at least one vreg recorded in a physical register; it then holds one
\* (register, slot) pair for each such vreg, each of which is recorded in that
\* slot afterwards; for every index that is not a Call it is absent.
C17_CallerSaves ==
    /\ [](\A i \in DOMAIN al.stack_saves : i < Len(bb) /\ bb[i + 1].op = "Call")
    /\ [][CallerSaveStep]_vars

\* A block with a Call that saved two registers and a later Call that found
\* nothing in a register.
C17_Witness ==
    /\ Allocated
    /\ \E i \in DOMAIN al.stack_saves : Len(al.stack_saves[i]) = 2
    /\ \E j \in Positions : bb[j + 1].op = "Call" /\ j \notin DOMAIN al.stack_saves

\* C18: if a recorded call, the entry sequence's call of main included, names
\* a function without a recorded start offset, assemble aborts and returns no
\* machine code; a program that defines no function main is not assembled.
C18_UnknownCalleeAborts ==
    pc = "done" =>
        /\ \A k \in 1..Len(fn_calls) : fn_calls[k][1] \in DOMAIN functions
        /\ \E k \in 1..Len(ast) : ast[k].name = MAIN_FN

\* A program without main: the fixup loop patched a call between its functions
\* and aborted at the call of main.
C18_Witness ==
    /\ pc = "panic"
    /\ stub_offset # None
    /\ Len(fn_calls) >= 2
    /\ fix_idx = Len(fn_calls) + 1
    /\ MAIN_FN \notin DOMAIN functions
    /\ \A k \in 1..(Len(fn_calls) - 1) : fn_calls[k][1] \in DOMAIN functions

(***************************************************************************)
(* Properties of allocate on blocks that fit the registers.                *)
(***************************************************************************)

\* vreg v is needed at index i: i lies between its definition and its last use.
Needed(v, i) == lt[v][1].start <= i /\ i <= LifetimeEnd(lt[v]) - 1

\* bb has no Call and never needs more vregs at once than there are registers.
FitsRegisters ==
    /\ \A i \in Positions : bb[i + 1].op # "Call"
    /\ \A i \in Positions :
          Cardinality({v \in DOMAIN lt : Needed(v, i)}) <= Len(CALLER_SAVED_REGS)

\* C19: for a block without Calls in which at most 16 vregs are needed at the
\* same time, allocate returns and spills nothing: every recorded guard is
\* Ready, stack_size is 0, and every vreg has one physical register at all
\* indices of its lifetime.
C19_NoSpillWhenFits ==
    (Allocated \/ pc = "panic") /\ FitsRegisters =>
        /\ al.ok
        /\ Allocated =>
              /\ \A p \in DOMAIN al.regmap : al.regmap[p].g = "Ready"
              /\ al.stack_size = 0
              /\ \A p, q \in DOMAIN al.regmap : p[1] = q[1] => al.regmap[p].reg = al.regmap[q].reg

\* A block of more vregs than registers that fits them: registers of dead
\* vregs were handed out again, and one vreg has guards at several indices.
C19_Witness ==
    /\ Allocated
    /\ FitsRegisters
    /\ Cardinality(DOMAIN lt) > Len(CALLER_SAVED_REGS)
    /\ \E i \in Positions : Cardinality({v \in DOMAIN lt : Needed(v, i)}) = Len(CALLER_SAVED_REGS)
    /\ \E p, q \in DOMAIN al.regmap : p[1] = q[1] /\ p[2] + 1 < q[2]

(***************************************************************************)
(* Properties of the spills: caller-saves, free registers, slots and the   *)
(* choice of the evicted vreg.                                             *)
(***************************************************************************)

\* C21: at a Call at index i the caller-save list has entries only for the
\* registers of vregs that are used at some index greater than i; a vreg whose
\* last use is before i gets no entry and no stack slot.
C21_OnlyLiveSaved ==
    pc = "alloc" => \A k \in 1..Len(al.saved) : LifetimeEnd(lt[al.saved[k].vreg]) - 1 > al.saved[k].idx

\* C22: after allocate has processed an instruction index, no vreg is recorded
\* in a register that is in the pool of free physical registers, also right
\* after a Call refilled that pool.
C22_HeldRegistersNotFree ==
    pc = "alloc" =>
        \A v \in InRegister(al.location_map) : ~Contains(al.phys_regs, al.location_map[v].x)

\* After a Call that refilled the pool, a vreg was given a register again.
C22_Witness ==
    /\ pc = "alloc"
    /\ DOMAIN al.stack_saves # {}
    /\ InRegister(al.location_map) # {}
    /\ Len(al.phys_regs) > 0

\* The vregs that location_map records in stack slot s.
InSlot(location_map, s) == {v \in DOMAIN location_map : location_map[v] = LocStack(s)}

\* C23: the save slot of a Save or SaveAndLoad guard is fresh when it is
\* assigned, whether the slots in use come from evictions or from the
\* caller-save of a Call, so two vregs never reside in the same stack slot at
\* the same time.
C23_SaveSlotFresh ==
    pc = "alloc" =>
        /\ \A v \in DOMAIN al.location_map :
              al.location_map[v].k = "stack" => InSlot(al.location_map, al.location_map[v].x) = {v}
        /\ \A p \in DOMAIN al.regmap :
              al.regmap[p].g = "SaveAndLoad" => al.regmap[p].save # al.regmap[p].load

\* The first index after i at which vreg v is used, USIZE_MAX when there is none.
NextUse(v, i) ==
    LET later == {j \in Positions : j > i /\ Live(v, j)}
    IN  IF later = {} THEN USIZE_MAX ELSE SetMin(later)

\* C24: when allocate evicts at instruction i, the evicted vreg is, among the
\* vregs held in registers, one whose next use after i is the latest, no later
\* use counting as infinity; a vreg used again at i + 1 is not chosen while
\* another candidate is used later.
C24_EvictsFurthestUse ==
    pc = "alloc" =>
        \A k \in 1..Len(al.evicted) :
            LET e == al.evicted[k]
            IN  \A v \in e.held : NextUse(v, e.idx) <= NextUse(e.victim, e.idx)

\* C25: the vreg that allocate evicts while processing instruction i is never
\* a vreg whose lifetime contains i: an operand or the destination of the
\* instruction does not lose its register to another operand of it.
C25_VictimNotInUse ==
    pc = "alloc" => \A k \in 1..Len(al.evicted) : ~Live(al.evicted[k].victim, al.evicted[k].idx)

\* The distance in bytes from the base register of the address an LDR or STR
\* word reaches: the unsigned-offset form scales its imm12 field by 8.
ByteOffset(w) == 8 * w.imm

\* C26: every store and every load the emitter produces for stack slot s
\* addresses SP + 8 * s, so that different slots are different locations and
\* the load of a slot reads what the store of that slot wrote.
C26_SlotAddress ==
    Allocated =>
        /\ \A p \in DOMAIN al.regmap :
              LET g == al.regmap[p]
                  ws == map_reg(al.regmap, p[1], p[2]).code
              IN  \A k \in 1..Len(ws) :
                      ByteOffset(ws[k]) = 8 * (IF ws[k].opc = "STR" THEN g.save ELSE g.load)
        /\ \A i \in DOMAIN al.stack_saves :
              LET ws == emit_call(al.stack_saves, i).pre
              IN  \A k \in 1..Len(al.stack_saves[i]) : ByteOffset(ws[k]) = 8 * al.stack_saves[i][k][2]

\* The immediates of operation o fit the field of the instruction emitted for
\* it: the signed 12 bits of ADD and SUB for one immediate operand, the 16 bits
\* of MOVZ for an assigned, a returned or a folded constant.
ImmediateFits(o) ==
    LET imms == {x \in {o.a, o.b} : x.t = "imm"}
    IN  CASE o.op \in {"Add", "Subtract"} /\ Cardinality(imms) = 1 /\ o.a.t # o.b.t ->
                 \A x \in imms : x.n >= -2048 /\ x.n <= 2047
          [] o.op \in {"Add", "Subtract"} /\ o.a.t = "imm" /\ o.b.t = "imm" ->
                 LET c == IF o.op = "Add" THEN o.a.n + o.b.n ELSE o.a.n - o.b.n
                 IN  c >= 0 /\ c <= 65535
          [] o.op \in {"Assign", "Return"} /\ o.a.t = "imm" -> o.a.n >= 0 /\ o.a.n <= 65535
          [] OTHER -> TRUE

\* C27: when an immediate does not fit the field of the instruction chosen for
\* it the assembly aborts: no instruction is emitted for an Add or Subtract
\* whose one immediate is outside the signed 12-bit range, nor for an Assign,
\* a Return or a folded Add or Subtract whose constant is not a 16-bit value.
C27_UnfitImmediateAborts ==
    Emitted1 => ImmediateFits(bb[op_idx])

\* The positions of bb whose operation writes vreg v.
Definitions(v) == {i \in Positions : bb[i + 1].op \notin {"Call", "Return"} /\ bb[i + 1].dest = v}

\* C28: in every block the generator hands to the assembler each vreg is the
\* destination of at most one operation, also the vreg of a variable declared
\* with an arithmetic initialiser.
C28_SingleAssignment ==
    LifetimesComputed => \A v \in DOMAIN lt : Cardinality(Definitions(v)) <= 1

\* The value operand x of the operation at position i has when the
\* instruction emitted for the operation executes: the immediate, or the
\* content of the register of the guard once the preludes have run.
OperandValue(x, i) == IF x.t = "imm" THEN x.n ELSE mach_pre.regs[al.regmap[<<x.n, i>>].reg]

\* C29: the code emitted for Subtract a, b leaves a - b in the register of the
\* destination, whichever of a and b are immediates; in particular an
\* immediate minus a vreg.
C29_SubtractOrder ==
    (Emitted1 /\ bb[op_idx].op = "Subtract") =>
        LET o == bb[op_idx]
            i == op_idx - 1
        IN  mach.regs[al.regmap[<<o.dest, i>>].reg] = OperandValue(o.a, i) - OperandValue(o.b, i)

\* C30: allocate returns normally for every block, whatever the number of its
\* vregs and of its calls: none of its internal checks fires, in particular
\* not the checks of Stack::free when an evicted vreg is reloaded.
C30_AllocateReturns == al.ok

====
